---- MODULE Spec2Model ----
(***************************************************************************)
(* Calendar image server (binzume/cal-server, main.go).                    *)
(*                                                                         *)
(* A request (HTTP or command line) names a kind and a date; writeImage    *)
(* merges the configuration, draws the month of the date and the next      *)
(* month with DrawCalendar, computes the count-since number and encodes    *)
(* the page.  The model keeps the drawing as the list of cells drawn       *)
(* (position, fill, text colour, underline) instead of pixels.             *)
(***************************************************************************)
EXTENDS Integers, Sequences, FiniteSets, TLC

(***************************************************************************)
(* Go integer arithmetic: / truncates toward zero.                         *)
(***************************************************************************)
TruncDiv(a, b) == IF a >= 0 THEN a \div b ELSE -((-a) \div b)

(***************************************************************************)
(* The proleptic Gregorian calendar of package time.  A day number counts  *)
(* days since 0001-01-01 (day 0, a Monday).                                *)
(***************************************************************************)
IsLeap(y) == (y % 4 = 0) /\ ((y % 100 # 0) \/ (y % 400 = 0))

DaysInMonth(y, m) ==
    IF m = 2 THEN (IF IsLeap(y) THEN 29 ELSE 28)
    ELSE IF m \in {4, 6, 9, 11} THEN 30 ELSE 31

DaysBeforeYear(y) ==
    365 * (y - 1) + ((y - 1) \div 4) - ((y - 1) \div 100) + ((y - 1) \div 400)

MonthStarts == <<0, 31, 59, 90, 120, 151, 181, 212, 243, 273, 304, 334, 365>>

\* Days of year y before its month m (m = 13: the whole year).
DaysBeforeMonth(y, m) == MonthStarts[m] + (IF m > 2 /\ IsLeap(y) THEN 1 ELSE 0)

\* time.Date normalises a month outside 1..12 and a day outside the month.
DaysFromCivil(y, m, d) ==
    LET yy == y + ((m - 1) \div 12)
        mm == ((m - 1) % 12) + 1
    IN  DaysBeforeYear(yy) + DaysBeforeMonth(yy, mm) + d - 1

YearOfDays(n) ==
    LET y0 == ((n * 400) \div 146097) + 1
    IN  IF DaysBeforeYear(y0) > n THEN y0 - 1
        ELSE IF DaysBeforeYear(y0 + 1) <= n THEN y0 + 1
        ELSE y0

CivilFromDays(n) ==
    LET y   == YearOfDays(n)
        doy == n - DaysBeforeYear(y)
        m0  == (doy \div 32) + 1
        m   == IF doy >= DaysBeforeMonth(y, m0 + 1) THEN m0 + 1 ELSE m0
    IN  [year |-> y, month |-> m, day |-> doy - DaysBeforeMonth(y, m) + 1]

\* Sunday = 0 .. Saturday = 6, as time.Weekday.
WeekdayOfDays(n) == (n + 1) % 7

(***************************************************************************)
(* time.Time: an instant, kept as UTC day number d and second of day s.    *)
(* time.Location: a standard offset, and for the system zone the daylight  *)
(* saving rule of the tz database (second Sunday of March 02:00 to first   *)
(* Sunday of November 02:00, one hour).                                    *)
(***************************************************************************)
SecPerDay == 86400

SecPerHour == 3600

Norm(d, s) == [d |-> d + (s \div SecPerDay), s |-> s % SecPerDay]

Before(a, b) == (a.d < b.d) \/ (a.d = b.d /\ a.s < b.s)

\* The n-th Sunday of month m of year y, as a day of the month.
NthSunday(y, m, n) ==
    1 + ((7 - WeekdayOfDays(DaysFromCivil(y, m, 1))) % 7) + 7 * (n - 1)

\* The days of year y on which daylight saving starts and ends.
DstRuleOf(y) ==
    [start |-> DaysFromCivil(y, 3, NthSunday(y, 3, 2)),
     end   |-> DaysFromCivil(y, 11, NthSunday(y, 11, 1))]

\* The rule tabulated for the years the model works in.
DstTable == [y \in 2000..2100 |-> DstRuleOf(y)]

DstRule(y) == IF y \in 2000..2100 THEN DstTable[y] ELSE DstRuleOf(y)

\* Daylight saving runs from 02:00 standard time on r.start to 02:00 daylight
\* time on r.end.
InDst(z, t, r) ==
    /\ ~Before(t, Norm(r.start, 2 * SecPerHour - z.std))
    /\ Before(t, Norm(r.end, SecPerHour - z.std))

\* Location.lookup: the offset in force at instant t.
OffsetAt(z, t) ==
    IF z.dst /\ InDst(z, t, DstRule(YearOfDays(t.d)))
    THEN z.std + SecPerHour
    ELSE z.std

Wall(z, t) == Norm(t.d, t.s + OffsetAt(z, t))

CivilOfWall(c, w) ==
    [year |-> c.year, month |-> c.month, day |-> c.day,
     wd |-> WeekdayOfDays(w.d), sec |-> w.s]

WallClock(w) == CivilOfWall(CivilFromDays(w.d), w)

\* The wall clock of t in z: Year(), Month(), Day(), Weekday() and the second
\* of the day.
Civil(z, t) == WallClock(Wall(z, t))

Year(z, t) == Civil(z, t).year

Month(z, t) == Civil(z, t).month

Day(z, t) == Civil(z, t).day

Weekday(z, t) == Civil(z, t).wd

\* time.Date(y, m, d, 0, 0, sec, 0, z): the wall clock w is looked up as if it
\* were UTC (off1), and once more at the instant that first offset gives.
DateWithOffset(z, w, off1) ==
    Norm(w.d, w.s - (IF off1 # 0 THEN OffsetAt(z, Norm(w.d, w.s - off1)) ELSE 0))

DateOfWall(z, w) == DateWithOffset(z, w, OffsetAt(z, w))

Date(z, y, m, d, sec) == DateOfWall(z, Norm(DaysFromCivil(y, m, d), sec))

\* Time.AddDate(0, months, days) of the time whose wall clock is c
AddCivil(z, c, months, days) == Date(z, c.year, c.month + months, c.day + days, c.sec)

\* Time.AddDate(0, months, days)
AddDate(z, t, months, days) == AddCivil(z, Civil(z, t), months, days)

\* Time.Add(d) for a duration of whole seconds
Add(t, secs) == Norm(t.d, t.s + secs)

\* int(a.Sub(b).Hours()): the whole hours of a - b, truncated toward zero.
\* A time.Duration is an int64 of nanoseconds: Sub saturates at 2^63 ns,
\* which is 2562047 whole hours.
MaxDurationHours == 2562047

Saturate(h) ==
    IF h > MaxDurationHours THEN MaxDurationHours
    ELSE IF h < -MaxDurationHours THEN -MaxDurationHours
    ELSE h

\* dd days and ds seconds, brought to the same sign, in whole hours
HoursOf(dd, ds) ==
    IF dd > 0 /\ ds < 0 THEN (dd - 1) * 24 + TruncDiv(ds + SecPerDay, SecPerHour)
    ELSE IF dd < 0 /\ ds > 0 THEN (dd + 1) * 24 + TruncDiv(ds - SecPerDay, SecPerHour)
    ELSE dd * 24 + TruncDiv(ds, SecPerHour)

SubHours(a, b) == Saturate(HoursOf(a.d - b.d, a.s - b.s))

MidnightOf(z, c) == Date(z, c.year, c.month, c.day, 0)

ToDate(z, t) == MidnightOf(z, Civil(z, t))

(***************************************************************************)
(* Configuration text.  A date is written Y/M/D or Y-M-D; a field is a     *)
(* number, "*" or something else.  A line is its separator, the fields of  *)
(* its first comma-separated column and its label.                         *)
(***************************************************************************)
Num(n) == [k |-> "num", v |-> n]

Star == [k |-> "star", v |-> 0]

Junk == [k |-> "junk", v |-> 0]

Line(sep, fields, label) == [sep |-> sep, fields |-> fields, label |-> label]

\* strconv.ParseInt(s, 10, 32) with its error dropped: 0 for a non-number.
ParseInt(tok) == IF tok.k = "num" THEN tok.v ELSE 0

ZeroEntry == [Year |-> 0, Month |-> 0, Day |-> 0, Label |-> ""]

\* DateEntry.UnmarshalText on a zero DateEntry
UnmarshalText(line) ==
    IF Len(line.fields) # 3 THEN ZeroEntry
    ELSE [Year  |-> IF line.fields[1].k = "star" THEN -1 ELSE ParseInt(line.fields[1]),
          Month |-> IF line.fields[2].k = "star" THEN -1 ELSE ParseInt(line.fields[2]),
          Day   |-> ParseInt(line.fields[3]),
          Label |-> line.label]

\* DateEntry.Key
Key(e) == <<e.Year, e.Month, e.Day>>

\* DateEntry.Date(l)
EntryDate(z, e) == Date(z, e.Year, e.Month, e.Day, 0)

SeqToSet(q) == {q[i] : i \in 1..Len(q)}

UnmarshalAll(q) == [i \in 1..Len(q) |-> UnmarshalText(q[i])]

(***************************************************************************)
(* CalendarConfig.  Unset is 0, "", the empty list (a nil slice) and the   *)
(* empty sequence for the nil *DateEntry.                                  *)
(***************************************************************************)
Config(w, h, font, holiday, anniv, since) ==
    [Width |-> w, Height |-> h, Font |-> font, Holiday |-> holiday,
     Anniversary |-> anniv, DayCountSince |-> since]

\* toml.DecodeFile fills one CalendarConfig per kind; its DateEntry values
\* go through UnmarshalText.
Decode(t) ==
    Config(t.Width, t.Height, t.Font, t.Holiday,
           UnmarshalAll(t.Anniversary),
           UnmarshalAll(t.DayCountSince))

\* The whole configuration replaced by the kind's.
MergeReplace(c, hasKind, conf) == IF hasKind THEN conf ELSE c

\* c.Merge(conf); hasKind is conf != nil
Merge(c, hasKind, conf) ==
    IF ~hasKind THEN c
    ELSE [Width         |-> IF conf.Width # 0 THEN conf.Width ELSE c.Width,
          Height        |-> IF conf.Height # 0 THEN conf.Height ELSE c.Height,
          Font          |-> IF conf.Font # "" THEN conf.Font ELSE c.Font,
          Holiday       |-> IF conf.Holiday # "" THEN conf.Holiday ELSE c.Holiday,
          Anniversary   |-> IF conf.Anniversary # <<>>
                            THEN c.Anniversary \o conf.Anniversary
                            ELSE c.Anniversary,
          DayCountSince |-> IF conf.DayCountSince # <<>>
                            THEN conf.DayCountSince
                            ELSE c.DayCountSince]

BuiltinConfig == Config(800, 480, "", "", <<>>, <<>>)

\* writeImage, lines 239-245: file is the decoded config.toml, a function
\* from the kinds it names to their CalendarConfig.
EffectiveConfig(file, confName) ==
    LET c1 == Merge(BuiltinConfig, "default" \in DOMAIN file,
                    IF "default" \in DOMAIN file THEN file["default"] ELSE BuiltinConfig)
    IN  IF confName # "default"
        THEN Merge(c1, confName \in DOMAIN file,
                   IF confName \in DOMAIN file THEN file[confName] ELSE BuiltinConfig)
        ELSE c1

\* writeImage, lines 247-250: the keys of the anniversary map
AnniversaryMap(conf) == {Key(conf.Anniversary[i]) : i \in 1..Len(conf.Anniversary)}

\* The lookup without its last step, the entry for every month.
AnniversaryFuncNoDayOnly(anniversary, day) ==
    IF <<day.year, day.month, day.day>> \in anniversary THEN TRUE
    ELSE IF <<-1, day.month, day.day>> \in anniversary THEN TRUE
    ELSE FALSE

\* anniversaryFunc, lines 251-262; day is the wall clock (Civil) of its argument
AnniversaryFunc(anniversary, day) ==
    IF <<day.year, day.month, day.day>> \in anniversary THEN TRUE
    ELSE IF <<-1, day.month, day.day>> \in anniversary THEN TRUE
    ELSE IF <<-1, -1, day.day>> \in anniversary THEN TRUE
    ELSE FALSE

\* loadHoliday: files maps a readable file name to its lines; the result is
\* the key set of the map.
LoadHoliday(files, fname) ==
    IF fname \notin DOMAIN files THEN {}
    ELSE {Key(UnmarshalText(files[fname][i])) :
            i \in {j \in 1..Len(files[fname]) :
                     UnmarshalText(files[fname][j]).Year # 0}}

\* Sunday alone taken for the weekend.
SundayIsDayOffFunc(t) == t.wd = 0

\* t is the wall clock (Civil) of the argument
DefaultIsDayOffFunc(t) == t.wd = 0 \/ t.wd = 6

\* cal.IsDayOffFunc as installed by writeImage, lines 280-286
IsDayOffFunc(holidays, d) ==
    IF DefaultIsDayOffFunc(d) THEN TRUE
    ELSE <<d.year, d.month, d.day>> \in holidays

(***************************************************************************)
(* DrawCalendar.  The drawing is kept as the list of day cells in drawing  *)
(* order: the day index d, the day of the month, the weekday column, the   *)
(* row offset y at which the cell is drawn, the colour its interior is     *)
(* filled with ("none": no fill), the colour of the day number and whether *)
(* the anniversary underline is drawn.                                     *)
(***************************************************************************)
BackgroundColor == "white"

TextColor == "black"

HolidayColor == "red"

WeekLabels == <<"Sun", "Mon", "Tue", "Wed", "Thu", "Fri", "Sat">>

Calendar(date, selected, holidays) ==
    [Date |-> date, SelectedDate |-> selected, holidays |-> holidays]

\* The month advanced with the day of the month kept: AddDate(0, 1, 0).
NextMonthKeepDay(z, c) == [c EXCEPT !.Date = AddDate(z, c.Date, 1, 0)]

\* Calendar.NextMonth; t is the wall clock of c.Date
NextMonthFrom(z, c, t) == [c EXCEPT !.Date = AddCivil(z, t, 1, -t.day + 1)]

NextMonth(z, c) == NextMonthFrom(z, c, Civil(z, c.Date))

\* The selected cell filled, its day number left in the day's colour.
CellNotInverted(selected, anniversary, y, d, day, colour) ==
    [d         |-> d,
     day       |-> day.day,
     month     |-> day.month,
     year      |-> day.year,
     wd        |-> day.wd,
     y         |-> y,
     fill      |-> IF selected = d THEN colour ELSE "none",
     text      |-> colour,
     underline |-> AnniversaryFunc(anniversary, day)]

\* Lines 121-137 for one day: day is the wall clock of start.AddDate(0, 0, d),
\* colour the colour set at lines 122-126.
Cell(selected, anniversary, y, d, day, colour) ==
    [d         |-> d,
     day       |-> day.day,
     month     |-> day.month,
     year      |-> day.year,
     wd        |-> day.wd,
     y         |-> y,
     fill      |-> IF selected = d THEN colour ELSE "none",
     text      |-> IF selected = d THEN BackgroundColor ELSE colour,
     underline |-> AnniversaryFunc(anniversary, day)]

\* The row advanced after the Sunday cell instead of the Saturday cell.
NextRowAfterSunday(day, rowsize, y) == IF day.wd = 0 THEN y + rowsize ELSE y

\* Lines 138-140
NextRow(day, rowsize, y) == IF day.wd = 6 THEN y + rowsize ELSE y

\* The loop of lines 119-141 from day index d at row offset y; startc is the
\* wall clock of start.
RECURSIVE DrawDays(_, _, _, _, _, _, _, _, _)
DrawDay(z, c, startc, numdays, selected, anniversary, rowsize, y, d, day) ==
    <<Cell(selected, anniversary, y, d, day,
           IF IsDayOffFunc(c.holidays, day) THEN HolidayColor ELSE TextColor)>>
    \o DrawDays(z, c, startc, numdays, selected, anniversary, rowsize,
                NextRow(day, rowsize, y), d + 1)

DrawDays(z, c, startc, numdays, selected, anniversary, rowsize, y, d) ==
    IF d >= numdays THEN <<>>
    ELSE DrawDay(z, c, startc, numdays, selected, anniversary, rowsize, y, d,
                 Civil(z, AddCivil(z, startc, 0, d)))

\* Line 98
FirstOfMonth(z, t) == ToDate(z, AddDate(z, t, 0, -Day(z, t) + 1))

\* Lines 99-100
NumDays(z, start) == TruncDiv(SubHours(AddDate(z, start, 1, 0), start), 24)

\* Line 101
Selected(c, start) == TruncDiv(SubHours(c.SelectedDate, start), 24)

\* Lines 103-141
DrawGrid(z, c, start, x, y, w, h, colsize, rowsize, anniversary, label) ==
    [start    |-> start,
     numdays  |-> NumDays(z, start),
     selected |-> Selected(c, start),
     x        |-> x,
     y        |-> y,
     h        |-> h,
     colsize  |-> colsize,
     rowsize  |-> rowsize,
     header   |-> IF label
                  THEN [i \in 1..Len(WeekLabels) |->
                          IF i = 1 THEN HolidayColor ELSE TextColor]
                  ELSE <<>>,
     cells    |-> DrawDays(z, c, Civil(z, start), NumDays(z, start), Selected(c, start),
                           anniversary, rowsize,
                           IF label THEN y + rowsize + 2 ELSE y, 0)]

\* DrawCalendar(img, c, x, y, w, h, afunc, label)
DrawCalendar(z, c, x, y, w, h, anniversary, label) ==
    DrawGrid(z, c, FirstOfMonth(z, c.Date), x, y, w, h,
             TruncDiv(w, Len(WeekLabels)), TruncDiv(h - 2, 7), anniversary, label)

\* writeImage, lines 320-323: the number drawn in the count-since block
DayCount(z, c, since) ==
    TruncDiv(SubHours(c.SelectedDate, EntryDate(z, since)), 24)

(***************************************************************************)
(* The environment: the TZ variable, config.toml, the holiday files, the   *)
(* clock and the requests.                                                 *)
(***************************************************************************)
MaxYears == 2

ImageChunks == 2

GifMaxSize == 65536

Years == 2024..(2024 + MaxYears - 1)

\* TZ with a POSIX offset ("JST-9"), and TZ naming a tz database zone with
\* daylight saving ("America/New_York"), which has no sign in it.
TZValues ==
    {[name |-> "JST-9", sign |-> "-", hour |-> 9, min |-> 0, sec |-> 0],
     [name |-> "America/New_York", sign |-> "", hour |-> 0, min |-> 0, sec |-> 0]}

\* The zone package time loads for a TZ value that names one.
SystemZone(tz) == [std |-> -5 * SecPerHour, dst |-> TRUE]

\* applyPosixTZ: the value of time.Local after it
ApplyPosixTZ(tz) ==
    IF tz.sign = "" THEN SystemZone(tz)
    ELSE [std |-> (IF tz.sign = "-" THEN 1 ELSE -1)
                     * (tz.hour * 3600 + tz.min * 60 + tz.sec),
          dst |-> FALSE]

DefaultKindText ==
    Config(0, 0, "ipag.ttf", "holiday.csv",
           <<Line("/", <<Num(2024), Num(12), Num(25)>>, "xmas"),
             Line("/", <<Star, Num(1), Num(1)>>, "new year")>>,
           <<Line("/", <<Num(2024), Num(1), Num(1)>>, "start")>>)

WorkKindText ==
    Config(400, 300, "", "",
           <<Line("-", <<Star, Star, Num(1)>>, "report"),
             Line("/", <<Num(12), Num(25)>>, "no year")>>,
           <<Line("-", <<Num(2025), Num(6), Num(1)>>, "launch")>>)

WideKindText ==
    Config(70000, 0, "work.ttf", "missing.csv", <<>>, <<>>)

NoKinds == [k \in {} |-> DefaultKindText]

DefaultOnly == [k \in {"default"} |-> DefaultKindText]

DefaultAndWork ==
    [k \in {"default", "work"} |-> IF k = "default" THEN DefaultKindText ELSE WorkKindText]

WideOnly == [k \in {"work"} |-> WideKindText]

\* What config.toml may hold when writeImage reads it.
ConfigFiles == {NoKinds, DefaultOnly, DefaultAndWork, WideOnly}

\* The readable holiday files.
HolidayFiles ==
    [f \in {"holiday.csv"} |->
        <<Line("/", <<Num(2025), Num(1), Num(1)>>, "ganjitsu"),
          Line("-", <<Num(2024), Num(5), Num(3)>>, "kenpo"),
          Line("/", <<Star, Num(7), Num(4)>>, "every year"),
          Line("/", <<Junk, Num(1), Num(2)>>, "no year"),
          Line("/", <<Num(2024)>>, "header")>>]

\* The directory part of a request path, as its segments, and path.Base of it.
Dirs == {<<>>, <<"default">>, <<"work">>}

PathBase(dir) == IF dir = <<>> THEN "/" ELSE dir[Len(dir)]

\* The file name without its extension: a date that parses, or anything else.
Name(y, m, d) == [ok |-> TRUE, y |-> y, m |-> m, d |-> d]

NoName == [ok |-> FALSE, y |-> 0, m |-> 0, d |-> 0]

Names == {Name(y, m, d) : y \in Years, m \in 1..12, d \in 1..31} \cup {NoName}

FewNames ==
    {Name(2024, 1, 11), Name(2024, 1, 31), Name(2024, 2, 29), Name(2024, 5, 3),
     Name(2024, 12, 25), Name(2025, 1, 1), Name(2025, 12, 25), NoName}

Exts == {".gif", ".png"}

Offsets == {0, 12 * SecPerHour}

\* time.Now(), as a wall clock: the evening of the last day of a month.
Clock(y, m) == [y |-> y, m |-> m, d |-> DaysInMonth(y, m), sec |-> 18 * SecPerHour]

Clocks == {Clock(y, m) : y \in Years, m \in 1..12}

FewClocks == {Clock(2024, 1), Clock(2024, 3)}

(***************************************************************************)
(* The inputs a run draws from.  Every date is requested under one         *)
(* configuration (AllDates); every configuration, kind, extension and      *)
(* offset is requested for a few dates (AllConfigs).                       *)
(***************************************************************************)
AllDates ==
    [dirs |-> {<<"work">>}, names |-> Names, cliNames |-> FewNames, exts |-> {".gif"},
     offsets |-> Offsets, clocks |-> Clocks, files |-> {DefaultAndWork}]

AllConfigs ==
    [dirs |-> Dirs, names |-> FewNames, cliNames |-> FewNames, exts |-> Exts,
     offsets |-> Offsets, clocks |-> FewClocks, files |-> ConfigFiles]

\* time.ParseInLocation("2006-01-02", name, ...) succeeds
Parses(name) == name.ok /\ name.d <= DaysInMonth(name.y, name.m)

NoClock == [y |-> 0, m |-> 0, d |-> 0, sec |-> 0]

\* parsePath reads time.Now() only when the name does not parse (line 192).
NowRead(name, clocks) == IF Parses(name) THEN {NoClock} ELSE clocks

\* parsePath
ParsePath(z, dir, name, ext, now) ==
    [confName |-> IF PathBase(dir) = "" THEN "default" ELSE PathBase(dir),
     date     |-> IF Parses(name)
                  THEN Date(z, name.y, name.m, name.d, 0)
                  ELSE Date(z, now.y, now.m, now.d, now.sec),
     ext      |-> ext]

(***************************************************************************)
(* The state.                                                              *)
(***************************************************************************)
VARIABLES
    loc,         \* time.Local
    pc,          \* where the process is
    mode,        \* "cli": main writes a file, "http": the handler serves
    confName,    \* parsePath's results, date shifted by the offset
    date,
    ext,
    conf,        \* writeImage: the merged CalendarConfig
    confFile,    \* the config.toml it was merged from
    anniversary, \* the anniversary map's keys
    cal,         \* the Calendar
    grid1,       \* the first DrawCalendar's cells (with header)
    grid2,       \* the second DrawCalendar's cells
    days,        \* the count-since number drawn, <<>> when none is
    buf,         \* bytes encoded into the handler's bytes.Buffer
    body,        \* bytes of the HTTP response body
    file,        \* bytes of the output file
    err          \* writeImage's error

vars == <<loc, pc, mode, confName, date, ext, conf, confFile, anniversary, cal,
          grid1, grid2, days, buf, body, file, err>>

NoTime == [d |-> 0, s |-> 0]

NoGrid ==
    [start |-> NoTime, numdays |-> 0, selected |-> 0, x |-> 0, y |-> 0, h |-> 0,
     colsize |-> 0, rowsize |-> 0, header |-> <<>>, cells |-> <<>>]

NoCalendar == Calendar(NoTime, NoTime, {})

\* The locals of one writeImage call, before it runs.
ClearImage ==
    /\ conf' = BuiltinConfig
    /\ confFile' = NoKinds
    /\ anniversary' = {}
    /\ cal' = NoCalendar
    /\ grid1' = NoGrid
    /\ grid2' = NoGrid
    /\ days' = <<>>
    /\ err' = FALSE

Init ==
    /\ loc \in {ApplyPosixTZ(tz) : tz \in TZValues}
    /\ pc = "main"
    /\ mode = "none"
    /\ confName = ""
    /\ date = NoTime
    /\ ext = ""
    /\ conf = BuiltinConfig
    /\ confFile = NoKinds
    /\ anniversary = {}
    /\ cal = NoCalendar
    /\ grid1 = NoGrid
    /\ grid2 = NoGrid
    /\ days = <<>>
    /\ buf = 0
    /\ body = 0
    /\ file = 0
    /\ err = FALSE

\* main with one argument: os.Create and parsePath (lines 384-390)
MainFile(P) ==
    /\ pc = "main"
    /\ \E dir \in P.dirs, name \in P.cliNames, e \in P.exts :
       \E now \in NowRead(name, P.clocks) :
          LET p == ParsePath(loc, dir, name, e, now)
          IN  /\ confName' = p.confName
              /\ date' = p.date
              /\ ext' = p.ext
    /\ mode' = "cli"
    /\ file' = 0
    /\ pc' = "config"
    /\ UNCHANGED <<loc, conf, confFile, anniversary, cal, grid1, grid2, days,
                   buf, body, err>>

\* main without arguments: the server listens (lines 396-397)
Listen ==
    /\ pc = "main"
    /\ mode' = "http"
    /\ pc' = "idle"
    /\ UNCHANGED <<loc, confName, date, ext, conf, confFile, anniversary, cal,
                   grid1, grid2, days, buf, body, file, err>>

\* handler, lines 339-342
HandlerRequest(P) ==
    /\ pc = "idle"
    /\ \E dir \in P.dirs, name \in P.names, e \in P.exts, offsetSec \in P.offsets :
       \E now \in NowRead(name, P.clocks) :
          LET p == ParsePath(loc, dir, name, e, now)
          IN  /\ confName' = p.confName
              /\ date' = Add(p.date, offsetSec)
              /\ ext' = p.ext
    /\ buf' = 0
    /\ body' = 0
    /\ ClearImage
    /\ pc' = "config"
    /\ UNCHANGED <<loc, mode, file>>

\* writeImage, lines 239-262: read config.toml, merge, build the anniversary map
LoadConfig(P) ==
    /\ pc = "config"
    /\ \E text \in P.files :
          /\ confFile' = text
          /\ conf' = EffectiveConfig([k \in DOMAIN text |-> Decode(text[k])], confName)
    /\ anniversary' = AnniversaryMap(conf')
    /\ pc' = "month1"
    /\ UNCHANGED <<loc, mode, confName, date, ext, cal, grid1, grid2, days,
                   buf, body, file, err>>

\* writeImage, lines 276-291: the calendar and the grid of the date's month
DrawMonth1 ==
    /\ pc = "month1"
    /\ cal' = Calendar(date, date, LoadHoliday(HolidayFiles, conf.Holiday))
    /\ grid1' = DrawCalendar(loc, cal', 500, 40, 280, 200, anniversary, TRUE)
    /\ pc' = "next"
    /\ UNCHANGED <<loc, mode, confName, date, ext, conf, confFile, anniversary,
                   grid2, days, buf, body, file, err>>

\* writeImage, line 293
AdvanceMonth ==
    /\ pc = "next"
    /\ cal' = NextMonth(loc, cal)
    /\ pc' = "month2"
    /\ UNCHANGED <<loc, mode, confName, date, ext, conf, confFile, anniversary,
                   grid1, grid2, days, buf, body, file, err>>

\* writeImage, lines 294-297
DrawMonth2 ==
    /\ pc = "month2"
    /\ grid2' = DrawCalendar(loc, cal, 500, 270, 280, 200, anniversary, FALSE)
    /\ pc' = "count"
    /\ UNCHANGED <<loc, mode, confName, date, ext, conf, confFile, anniversary,
                   cal, grid1, days, buf, body, file, err>>

\* writeImage, lines 299-327: the caption and the count-since block
DrawCount ==
    /\ pc = "count"
    /\ days' = IF conf.DayCountSince # <<>>
               THEN <<DayCount(loc, cal, conf.DayCountSince[1])>>
               ELSE <<>>
    /\ pc' = "encode"
    /\ UNCHANGED <<loc, mode, confName, date, ext, conf, confFile, anniversary,
                   cal, grid1, grid2, buf, body, file, err>>

\* gif.Encode refuses an image of 65536 pixels or more a side before it
\* writes anything.
TooLarge == ext # ".png" /\ (conf.Width >= GifMaxSize \/ conf.Height >= GifMaxSize)

\* writeImage, lines 329-335, into the handler's buffer: a bytes.Buffer takes
\* every write.
EncodeBuffer ==
    /\ pc = "encode"
    /\ mode = "http"
    /\ IF TooLarge
       THEN err' = TRUE /\ buf' = buf
       ELSE err' = FALSE /\ buf' = ImageChunks
    /\ pc' = "encoded"
    /\ UNCHANGED <<loc, mode, confName, date, ext, conf, confFile, anniversary,
                   cal, grid1, grid2, days, body, file>>

\* writeImage, lines 329-335, into the output file: the encoder writes
\* through to the file, and a write may fail after n bytes went out.
EncodeFile ==
    /\ pc = "encode"
    /\ mode = "cli"
    /\ IF TooLarge
       THEN err' = TRUE /\ file' = file
       ELSE \E n \in 0..ImageChunks :
               /\ file' = n
               /\ err' = (n < ImageChunks)
    /\ pc' = "encoded"
    /\ UNCHANGED <<loc, mode, confName, date, ext, conf, confFile, anniversary,
                   cal, grid1, grid2, days, buf, body>>

\* log.Fatal(err), lines 344-346 and 392-394: the process exits
Fatal ==
    /\ pc = "encoded"
    /\ err
    /\ pc' = "exit"
    /\ UNCHANGED <<loc, mode, confName, date, ext, conf, confFile, anniversary,
                   cal, grid1, grid2, days, buf, body, file, err>>

\* handler, lines 347-356: the headers, then io.Copy(w, b); the handler
\* returns and its locals are gone
Respond ==
    /\ pc = "encoded"
    /\ ~err
    /\ mode = "http"
    /\ body' = buf
    /\ pc' = "idle"
    /\ confName' = ""
    /\ date' = NoTime
    /\ ext' = ""
    /\ buf' = 0
    /\ ClearImage
    /\ UNCHANGED <<loc, mode, file>>

\* main returns after writing the file
ExitMain ==
    /\ pc = "encoded"
    /\ ~err
    /\ mode = "cli"
    /\ pc' = "exit"
    /\ UNCHANGED <<loc, mode, confName, date, ext, conf, confFile, anniversary,
                   cal, grid1, grid2, days, buf, body, file, err>>

Step(P) ==
    \/ MainFile(P)
    \/ Listen
    \/ HandlerRequest(P)
    \/ LoadConfig(P)
    \/ DrawMonth1
    \/ AdvanceMonth
    \/ DrawMonth2
    \/ DrawCount
    \/ EncodeBuffer
    \/ EncodeFile
    \/ Fatal
    \/ Respond
    \/ ExitMain

Next == Step(AllDates)

NextConfigs == Step(AllConfigs)

\* Every date, one configuration.
Spec == Init /\ [][Next]_vars

\* Every configuration, a few dates.
SpecConfigs == Init /\ [][NextConfigs]_vars

(***************************************************************************)
(* Properties.                                                             *)
(***************************************************************************)
AfterConfig == {"month1", "next", "month2", "count", "encode", "encoded", "exit"}

AfterMonth1 == {"next", "month2", "count", "encode", "encoded", "exit"}

AfterAdvance == {"month2", "count", "encode", "encoded", "exit"}

AfterMonth2 == {"count", "encode", "encoded", "exit"}

AfterCount == {"encode", "encoded", "exit"}

\* The grids drawn so far.
Grids ==
    IF pc \in AfterMonth2 THEN {grid1, grid2}
    ELSE IF pc \in AfterMonth1 THEN {grid1}
    ELSE {}

\* The wall clock of the request date, which is also the selected date.
Requested == Civil(loc, date)

\* The month after month m of year y.
MonthAfter(y, m) == IF m = 12 THEN [year |-> y + 1, month |-> 1]
                    ELSE [year |-> y, month |-> m + 1]

SameDay(cell, t) == cell.year = t.year /\ cell.month = t.month /\ cell.day = t.day

\* Grid g holds one cell for each day of month m of year y, in order, each
\* in the column of its Gregorian weekday.
GridIsMonth(g, y, m) ==
    /\ g.numdays = DaysInMonth(y, m)
    /\ Len(g.cells) = DaysInMonth(y, m)
    /\ \A i \in 1..Len(g.cells) :
          /\ g.cells[i].year = y
          /\ g.cells[i].month = m
          /\ g.cells[i].day = i
          /\ g.cells[i].wd = WeekdayOfDays(DaysFromCivil(y, m, i))

\* C1: in every zone, a daylight saving zone included, DrawCalendar draws
\* exactly one cell for each day of the month (28, 29, 30 or 31), each in the
\* column of its Gregorian weekday.
C1_OneCellPerDay ==
    /\ pc \in AfterMonth1 => GridIsMonth(grid1, Requested.year, Requested.month)
    /\ pc \in AfterMonth2 =>
          GridIsMonth(grid2, Year(loc, cal.Date), Month(loc, cal.Date))

\* C2: a cell of a month grid is highlighted if and only if it is the calendar
\* day of the selected date; the next-month grid has no highlighted cell.
C2_HighlightIsSelectedDay ==
    \A g \in Grids : \A i \in 1..Len(g.cells) :
        (g.cells[i].fill # "none") <=> SameDay(g.cells[i], Requested)

\* C3: after advancing, the calendar is at the month following the month of
\* the request date (December rolls over), whatever the day of the month, and
\* that is the month the second grid starts at and draws.
C3_SecondGridIsNextMonth ==
    /\ pc \in AfterAdvance =>
          /\ Year(loc, cal.Date) = MonthAfter(Requested.year, Requested.month).year
          /\ Month(loc, cal.Date) = MonthAfter(Requested.year, Requested.month).month
    /\ pc \in AfterMonth2 =>
          /\ Civil(loc, grid2.start).year = MonthAfter(Requested.year, Requested.month).year
          /\ Civil(loc, grid2.start).month = MonthAfter(Requested.year, Requested.month).month
          /\ Civil(loc, grid2.start).day = 1
          /\ Civil(loc, grid2.start).sec = 0
          /\ \A i \in 1..Len(grid2.cells) :
                /\ grid2.cells[i].year = MonthAfter(Requested.year, Requested.month).year
                /\ grid2.cells[i].month = MonthAfter(Requested.year, Requested.month).month

\* A request for January 31 is drawn with February as its second grid, and one
\* for December 31 with January of the next year.
C3_Witness ==
    /\ pc = "count"
    /\ Requested.month = 1 /\ Requested.day = 31 /\ Requested.year = 2024
    /\ Civil(loc, grid2.start).month = 2
    /\ Len(grid2.cells) = 29

\* The row offset at which grid g starts its days.
Top(g) == IF g.header # <<>> THEN g.y + g.rowsize + 2 ELSE g.y

\* The number of rows the days of grid g occupy.
Rows(g) ==
    IF g.cells = <<>> THEN 0
    ELSE ((g.cells[Len(g.cells)].y - Top(g)) \div g.rowsize) + 1

\* C10: the row offset advances by one row height after each Saturday cell and
\* at no other time, the days occupy at most 6 rows, and with the header every
\* cell bottom stays within y + h of the region.
C10_RowsFitRegion ==
    \A g \in Grids :
        /\ g.rowsize = (g.h - 2) \div 7
        /\ g.cells # <<>> => g.cells[1].y = Top(g)
        /\ \A i \in 1..(Len(g.cells) - 1) :
              g.cells[i + 1].y =
                 g.cells[i].y + (IF WeekdayOfDays(DaysFromCivil(g.cells[i].year,
                                        g.cells[i].month, g.cells[i].day)) = 6
                                 THEN g.rowsize ELSE 0)
        /\ Rows(g) <= 6
        /\ \A i \in 1..Len(g.cells) : g.cells[i].y + g.rowsize <= g.y + g.h

\* A 31-day month starting on a Friday, drawn with the header: six rows, the
\* last one ending at y + 198.
C10_Witness ==
    /\ pc = "count"
    /\ grid1.header # <<>>
    /\ Len(grid1.cells) = 31
    /\ Rows(grid1) = 6
    /\ grid1.cells[31].y + grid1.rowsize = grid1.y + 198

\* The predicate installed at lines 280-286, for a drawn cell.
CellIsDayOff(cell) ==
    IsDayOffFunc(cal.holidays,
                 [year |-> cell.year, month |-> cell.month, day |-> cell.day,
                  wd |-> cell.wd, sec |-> 0])

DayColour(cell) == IF CellIsDayOff(cell) THEN HolidayColor ELSE TextColor

\* C9: the selected day's cell is filled with the base text colour and its
\* number drawn in the background colour, day-off or not; any other day's
\* number is drawn in the accent colour if it is a day-off, else in the base
\* text colour.
C9_SelectedFilledBlack ==
    \A g \in Grids : \A i \in 1..Len(g.cells) :
        IF g.cells[i].d = g.selected
        THEN g.cells[i].fill = TextColor /\ g.cells[i].text = BackgroundColor
        ELSE g.cells[i].fill = "none" /\ g.cells[i].text = DayColour(g.cells[i])

\* C9 as amended: the selected day's cell is filled with the colour of the day
\* (accent if it is a day-off, else base text colour) and its number drawn in
\* the background colour; any other day has no fill and its number in the
\* colour of the day.
C9_SelectedFilledDayColour ==
    \A g \in Grids : \A i \in 1..Len(g.cells) :
        IF g.cells[i].d = g.selected
        THEN /\ g.cells[i].fill = DayColour(g.cells[i])
             /\ g.cells[i].text = BackgroundColor
        ELSE /\ g.cells[i].fill = "none"
             /\ g.cells[i].text = DayColour(g.cells[i])

\* A selected Sunday: its cell is filled red, its number white.
C9_Witness ==
    /\ pc = "count"
    /\ Requested.wd = 0
    /\ \E i \in 1..Len(grid1.cells) :
          /\ grid1.cells[i].d = grid1.selected
          /\ grid1.cells[i].fill = HolidayColor
          /\ grid1.cells[i].text = BackgroundColor

\* The anniversary entries in force: the configuration's DateEntry values.
EntryMatches(e, cell) ==
    /\ e.Day = cell.day
    /\ \/ e.Year = cell.year /\ e.Month = cell.month
       \/ e.Year = -1 /\ e.Month = cell.month
       \/ e.Year = -1 /\ e.Month = -1

\* The anniversary lines of config.toml that the merge brings in.
AnniversaryLines ==
    (IF "default" \in DOMAIN confFile
     THEN SeqToSet(confFile["default"].Anniversary) ELSE {})
    \cup
    (IF confName # "default" /\ confName \in DOMAIN confFile
     THEN SeqToSet(confFile[confName].Anniversary) ELSE {})

\* A line written */M/D, or */*/D, for the day of the cell.
WildcardLineFor(l, cell) ==
    /\ Len(l.fields) = 3
    /\ l.fields[1] = Star
    /\ l.fields[3] = Num(cell.day)
    /\ l.fields[2] = Num(cell.month) \/ l.fields[2] = Star

\* C4: a day is marked as an anniversary exactly when the entries hold its
\* exact (y, m, d), or (any, m, d), or (any, any, d); an entry written with
\* "*" for the year, or for year and month, is such a wildcard entry.
C4_AnniversaryLookup ==
    \A g \in Grids : \A i \in 1..Len(g.cells) :
        /\ g.cells[i].underline <=>
              \E k \in 1..Len(conf.Anniversary) :
                  EntryMatches(conf.Anniversary[k], g.cells[i])
        /\ (\E l \in AnniversaryLines : WildcardLineFor(l, g.cells[i]))
              => g.cells[i].underline

\* 2025-12-25 with an entry for 2024/12/25 and none for */12/25: the 25th is
\* not marked, the 1st is (entry */*/1), and the next grid's January 1 is.
C4_Witness ==
    /\ pc = "count"
    /\ Requested.year = 2025 /\ Requested.month = 12
    /\ \E k \in 1..Len(conf.Anniversary) : Key(conf.Anniversary[k]) = <<2024, 12, 25>>
    /\ ~grid1.cells[25].underline
    /\ grid1.cells[1].underline
    /\ ~grid1.cells[2].underline
    /\ grid2.cells[1].underline

\* A holiday line Y/M/D or Y-M-D of the holiday file in force names the cell.
HolidayLineFor(cell) ==
    /\ conf.Holiday \in DOMAIN HolidayFiles
    /\ \E k \in 1..Len(HolidayFiles[conf.Holiday]) :
          /\ Len(HolidayFiles[conf.Holiday][k].fields) = 3
          /\ HolidayFiles[conf.Holiday][k].fields[1] = Num(cell.year)
          /\ HolidayFiles[conf.Holiday][k].fields[2] = Num(cell.month)
          /\ HolidayFiles[conf.Holiday][k].fields[3] = Num(cell.day)

Weekend(cell) ==
    WeekdayOfDays(DaysFromCivil(cell.year, cell.month, cell.day)) \in {0, 6}

\* The colour lines 122-126 set for the cell: that of its fill when it is
\* filled, else that of its number.
ColourSet(cell) == IF cell.fill # "none" THEN cell.fill ELSE cell.text

\* C5: a day is a day-off exactly when it is a Saturday or a Sunday, whatever
\* the holiday data (none when the file cannot be read), or a holiday line
\* names its exact year, month and day.
C5_DayOff ==
    \A g \in Grids : \A i \in 1..Len(g.cells) :
        /\ CellIsDayOff(g.cells[i]) <=> (Weekend(g.cells[i]) \/ HolidayLineFor(g.cells[i]))
        /\ (ColourSet(g.cells[i]) = HolidayColor) <=>
              (Weekend(g.cells[i]) \/ HolidayLineFor(g.cells[i]))

\* January 2025 with the line 2025/1/1: Wednesday the 1st is a day-off.
C5_Witness ==
    /\ pc = "count"
    /\ Requested.year = 2025 /\ Requested.month = 1 /\ Requested.day = 1
    /\ grid1.cells[1].wd = 3
    /\ grid1.cells[1].fill = HolidayColor
    /\ grid1.cells[2].text = TextColor
    /\ grid1.cells[4].text = HolidayColor

\* C6: the count-since number is the number of whole 24-hour periods between
\* the reference date's midnight and the selected date's midnight, truncated
\* toward zero, for every selected date, before or after the reference.
C6_DayCount ==
    (pc \in AfterCount /\ conf.DayCountSince # <<>>) =>
        /\ days # <<>>
        /\ days[1] = TruncDiv(HoursOf(ToDate(loc, date).d
                                         - EntryDate(loc, conf.DayCountSince[1]).d,
                                      ToDate(loc, date).s
                                         - EntryDate(loc, conf.DayCountSince[1]).s),
                              24)

\* The configuration of a kind as config.toml gives it; every field unset
\* when the file does not name the kind.
KindConfig(name) ==
    IF name \in DOMAIN confFile THEN Decode(confFile[name])
    ELSE Config(0, 0, "", "", <<>>, <<>>)

\* The kind's value if set, else the default kind's if set, else the built-in.
Resolve(kindValue, defaultValue, builtin, unset) ==
    IF kindValue # unset THEN kindValue
    ELSE IF defaultValue # unset THEN defaultValue
    ELSE builtin

FieldsResolved ==
    /\ conf.Width = Resolve(KindConfig(confName).Width, KindConfig("default").Width, 800, 0)
    /\ conf.Height = Resolve(KindConfig(confName).Height, KindConfig("default").Height, 480, 0)
    /\ conf.Font = Resolve(KindConfig(confName).Font, KindConfig("default").Font, "", "")
    /\ conf.Holiday =
          Resolve(KindConfig(confName).Holiday, KindConfig("default").Holiday, "", "")
    /\ conf.DayCountSince =
          Resolve(KindConfig(confName).DayCountSince, KindConfig("default").DayCountSince,
                  <<>>, <<>>)

C8_NoPartialOutput ==
    (pc = "exit" /\ err) => (body = 0 /\ file = 0)

====
